---------------------------- MODULE Spec2Model ----------------------------
(***************************************************************************)
(* Telemetry reconciliation pipeline of temp-sensor-logger.                *)
(*                                                                         *)
(*   scripts/serial_uploader.py       live stream, watermark dedup         *)
(*   scripts/force_sd_dump.py         dump replay through the live filter  *)
(*   scripts/recover_from_log_dump.py recovered-log batches, no filter     *)
(*   scripts/backfill_sd_data.py      bulk import, existence dedup         *)
(*   scripts/retrieve_sd_data.py      capture of a dump to a file          *)
(*   scripts/standalone_dump.py       capture of one day's file            *)
(*                                                                         *)
(* Timestamps are text in the program.  A timestamp string is modelled by  *)
(* the record [k, y, mo, d, h, mi, s]: k tells the form of the text        *)
(*   "empty"   ''                                                          *)
(*   "iso"     YYYY-MM-DDTHH:MM:SS        naive local text                 *)
(*   "isoZ"    YYYY-MM-DDTHH:MM:SSZ       UTC text as the store prints it  *)
(*   "uptime"  UPTIME_<s>                 unsynchronised device clock      *)
(* and the fields are the digits of the text.                              *)
(***************************************************************************)
EXTENDS Integers, Sequences, FiniteSets, TLC

(***************************************************************************)
(* Text of timestamps and Python's ordering of it.                         *)
(***************************************************************************)
Iso(y, mo, d, h, mi, s) ==
    [k |-> "iso", y |-> y, mo |-> mo, d |-> d, h |-> h, mi |-> mi, s |-> s]

IsoZ(y, mo, d, h, mi, s) ==
    [k |-> "isoZ", y |-> y, mo |-> mo, d |-> d, h |-> h, mi |-> mi, s |-> s]

Uptime(n) ==
    [k |-> "uptime", y |-> 0, mo |-> 0, d |-> 0, h |-> 0, mi |-> 0, s |-> n]

EmptyStr ==
    [k |-> "empty", y |-> 0, mo |-> 0, d |-> 0, h |-> 0, mi |-> 0, s |-> 0]

\* A text that is no date, such as "not-a-date".
RawText ==
    [k |-> "raw", y |-> 0, mo |-> 0, d |-> 0, h |-> 0, mi |-> 0, s |-> 0]

\* Python's None where a text is expected.
NoText ==
    [k |-> "none", y |-> 0, mo |-> 0, d |-> 0, h |-> 0, mi |-> 0, s |-> 0]

\* "1970-01-01T00:00:00", the initial and the fallback watermark.
EpochZero == Iso(1970, 1, 1, 0, 0, 0)

Digits(t) == <<t.y, t.mo, t.d, t.h, t.mi, t.s>>

LexLT(p, q) ==
    \E i \in 1..Len(p) :
        /\ \A j \in 1..(i - 1) : p[j] = q[j]
        /\ p[i] < q[i]

\* The first character decides between the forms: '' is a prefix of every
\* text, a digit (0x30..0x39) sorts before 'U' (0x55) and 'U' before a
\* lower-case letter.  None has no place in the order (a comparison with it
\* raises): it is put below every text and the callers test for it first.
FormRank(t) ==
    CASE t.k = "none"   -> -1
      [] t.k = "empty"  -> 0
      [] t.k = "iso"    -> 1
      [] t.k = "isoZ"   -> 1
      [] t.k = "uptime" -> 2
      [] t.k = "raw"    -> 3

\* Python's a < b on str.  Two dated texts compare by their zero-padded
\* digits; with equal digits the naive text is a proper prefix of the Z text.
PyStrLT(a, b) ==
    \/ FormRank(a) < FormRank(b)
    \/ /\ FormRank(a) = FormRank(b)
       /\ FormRank(a) # 0
       /\ \/ LexLT(Digits(a), Digits(b))
          \/ Digits(a) = Digits(b) /\ a.k = "iso" /\ b.k = "isoZ"

PyStrLE(a, b) == a = b \/ PyStrLT(a, b)

(***************************************************************************)
(* Calendar arithmetic of datetime (proleptic Gregorian).                  *)
(***************************************************************************)
IsLeap(y) == (y % 4 = 0 /\ y % 100 # 0) \/ y % 400 = 0

DaysInMonth(y, m) ==
    CASE m \in {1, 3, 5, 7, 8, 10, 12} -> 31
      [] m \in {4, 6, 9, 11}           -> 30
      [] m = 2                         -> IF IsLeap(y) THEN 29 ELSE 28
      [] OTHER                         -> 0

\* Days from 1970-01-01 to y-m-d.
DaysFromCivil(y, m, d) ==
    LET yy  == IF m <= 2 THEN y - 1 ELSE y
        era == yy \div 400
        yoe == yy - era * 400
        mp  == IF m > 2 THEN m - 3 ELSE m + 9
        doy == (153 * mp + 2) \div 5 + d - 1
        doe == yoe * 365 + yoe \div 4 - yoe \div 100 + doy
    IN  era * 146097 + doe - 719468

\* The date, as <<y, m, d>>, of day z counted from 1970-01-01.
CivilFromDays(z) ==
    LET zz  == z + 719468
        era == zz \div 146097
        doe == zz - era * 146097
        yoe == (doe - doe \div 1460 + doe \div 36524 - doe \div 146096) \div 365
        doy == doe - (365 * yoe + yoe \div 4 - yoe \div 100)
        mp  == (5 * doy + 2) \div 153
        d   == doy - (153 * mp + 2) \div 5 + 1
        m   == IF mp < 10 THEN mp + 3 ELSE mp - 9
        y   == yoe + era * 400 + (IF m <= 2 THEN 1 ELSE 0)
    IN  <<y, m, d>>

\* 0 = Sunday; 1970-01-01 was a Thursday.
Weekday(y, m, d) == (DaysFromCivil(y, m, d) + 4) % 7

\* datetime.fromisoformat accepts the text: a date and time of the calendar.
ValidCivil(t) ==
    /\ t.y \in 1..9999
    /\ t.mo \in 1..12
    /\ t.d \in 1..DaysInMonth(t.y, t.mo)
    /\ t.h \in 0..23
    /\ t.mi \in 0..59
    /\ t.s \in 0..59

\* Seconds from 1970-01-01T00:00:00 of the wall-clock reading of the digits.
WallSeconds(t) ==
    DaysFromCivil(t.y, t.mo, t.d) * 86400 + t.h * 3600 + t.mi * 60 + t.s

\* The wall-clock digits <<y, mo, d, h, mi, s>> of a count of seconds.
WallOfSeconds(n) ==
    LET days == n \div 86400
        rem  == n - days * 86400
        c    == CivilFromDays(days)
    IN  <<c[1], c[2], c[3], rem \div 3600, (rem % 3600) \div 60, rem % 60>>

(***************************************************************************)
(* The America/Chicago rule table (US rule since 2007): daylight time from *)
(* the second Sunday of March, 02:00 standard, to the first Sunday of      *)
(* November, 02:00 daylight.                                               *)
(***************************************************************************)
StdOffsetHours == -6
DstOffsetHours == -5

FirstSunday(y, m) == CHOOSE d \in 1..7 : Weekday(y, m, d) = 0

DstStartDay(y) == FirstSunday(y, 3) + 7
DstEndDay(y)   == FirstSunday(y, 11)

\* utcoffset() of a naive wall time with fold = 0: in the skipped hour
\* (02:00..02:59 of the start day) the offset before the transition, in the
\* repeated hour (01:00..01:59 of the end day) the first occurrence.
LocalIsDst(t) ==
    LET w == <<t.mo, t.d, t.h, t.mi, t.s>>
    IN  /\ ~LexLT(w, <<3, DstStartDay(t.y), 3, 0, 0>>)
        /\ LexLT(w, <<11, DstEndDay(t.y), 2, 0, 0>>)

LocalOffsetHours(t) == IF LocalIsDst(t) THEN DstOffsetHours ELSE StdOffsetHours

\* UTC seconds of a naive Central wall time.
LocalToInstant(t) == WallSeconds(t) - LocalOffsetHours(t) * 3600

\* utcoffset() of an instant (astimezone): daylight time holds from
\* 08:00Z of the start day to 07:00Z of the end day.
InstantIsDst(n) ==
    LET y == WallOfSeconds(n)[1]
    IN  /\ n >= DaysFromCivil(y, 3, DstStartDay(y)) * 86400 + 8 * 3600
        /\ n <  DaysFromCivil(y, 11, DstEndDay(y)) * 86400 + 7 * 3600

InstantOffsetHours(n) == IF InstantIsDst(n) THEN DstOffsetHours ELSE StdOffsetHours

\* strftime('%Y-%m-%dT%H:%M:%S') of an instant seen in Central time.
InstantToLocal(n) ==
    LET w == WallOfSeconds(n + InstantOffsetHours(n) * 3600)
    IN  Iso(w[1], w[2], w[3], w[4], w[5], w[6])

\* to_char(timestamp at time zone 'UTC', 'YYYY-MM-DD"T"HH24:MI:SS"Z"').
InstantToUtcText(n) ==
    LET w == WallOfSeconds(n)
    IN  IsoZ(w[1], w[2], w[3], w[4], w[5], w[6])

(***************************************************************************)
(* Records of the device: one comma-separated line is the tuple of its     *)
(* fields (line.split(',')), the first a timestamp text, the others plain  *)
(* text.  An optional value is a sequence of length 0 (None) or 1.         *)
(***************************************************************************)
None == <<>>
Some(v) == <<v>>

\* An exception leaving a function, where its value would be.
Raised == <<"raised", "raised">>
IsRaised(x) == Len(x) = 2

\* int(tok) and float(tok) succeed on these texts; the value of a float is
\* kept in tenths.
IntValue(tok) ==
    CASE tok = "0" -> 0 [] tok = "2" -> 2 [] tok = "5" -> 5

IsInt(tok) == tok \in {"0", "2", "5"}

FloatValue(tok) ==
    CASE tok = "21.5" -> 215 [] tok = "21.3" -> 213 [] tok = "22.1" -> 221
      [] tok = "45.2" -> 452 [] tok = "987.3" -> 9873 [] tok = "12000" -> 120000
      [] IsInt(tok) -> IntValue(tok) * 10

IsFloat(tok) == tok \in {"21.5", "21.3", "22.1", "45.2", "987.3", "12000"} \/ IsInt(tok)

\* re.match(r'\d{4}-\d{2}-\d{2}T\d{2}:\d{2}:\d{2}', timestamp): a prefix
\* match, so text after the seconds passes.
MatchesTimestamp(t) == t.k \in {"iso", "isoZ"}

\* A faulty variant: the token 'null' is read as 0.0.
NullableFloatZero(tok) ==
    IF tok = "null" THEN [ok |-> TRUE, v |-> Some(0)]
    ELSE IF IsFloat(tok) THEN [ok |-> TRUE, v |-> Some(FloatValue(tok))]
    ELSE [ok |-> FALSE, v |-> None]

\* float(x) if x != 'null' else None; the second component tells whether
\* float() raised.
NullableFloat(tok) ==
    IF tok = "null" THEN [ok |-> TRUE, v |-> None]
    ELSE IF IsFloat(tok) THEN [ok |-> TRUE, v |-> Some(FloatValue(tok))]
    ELSE [ok |-> FALSE, v |-> None]

Payload(dev, ts, readings, env, level) ==
    [device_id |-> dev, timestamp |-> ts, readings |-> readings,
     environment_sensor |-> env, level_sensor |-> level]

\* serial_uploader.parse_csv_line: Some(payload) or None.  parts[i] of the
\* code is parts[i + 1] here.
parse_csv_line(parts) ==
    LET n == Len(parts) IN
    IF n < 3 THEN None
    ELSE IF ~MatchesTimestamp(parts[1]) THEN None
    ELSE IF n >= 9 /\ parts[4] \in {"A", "B"} THEN
        LET raw == NullableFloat(parts[7])
            cal == NullableFloat(parts[8])
        IN  IF IsInt(parts[5]) /\ raw.ok /\ cal.ok
            THEN Some(Payload(parts[2], parts[1],
                     <<[sensor_name |-> parts[3], bus |-> parts[4],
                        pin |-> IntValue(parts[5]), rom |-> parts[6],
                        raw_temp_c |-> raw.v, temp_c |-> cal.v,
                        status |-> parts[9]]>>, None, None))
            ELSE None
    ELSE IF parts[3] = "ATM01" /\ n >= 12 THEN
        IF IsFloat(parts[7]) /\ IsFloat(parts[10]) /\ IsFloat(parts[11]) /\ IsFloat(parts[12])
        THEN Some(Payload(parts[2], parts[1], <<>>,
                 Some([sensor_name |-> parts[3], type |-> "BME680",
                       temp_c |-> FloatValue(parts[7]),
                       humidity |-> FloatValue(parts[10]),
                       pressure_hpa |-> FloatValue(parts[11]),
                       gas_resistance_ohms |-> FloatValue(parts[12])]), None))
        ELSE None
    ELSE IF n < 4 THEN None                      \* parts[3]: IndexError
    ELSE IF parts[4] = "L" THEN
        IF n >= 9 /\ IsInt(parts[5])            \* parts[4], parts[8]
        THEN Some(Payload(parts[2], parts[1], <<>>, None,
                 Some([sensor_name |-> parts[3], pin |-> IntValue(parts[5]),
                       state |-> parts[9]])))
        ELSE None
    ELSE Some(Payload(parts[2], parts[1], <<>>, None, None))

(***************************************************************************)
(* Sample records of the device (logToSD layout) and the lines of the      *)
(* serial stream.                                                          *)
(***************************************************************************)
TempLine(ts, name) ==
    <<ts, "dev1", name, "A", "2", "28FF1", "21.5", "21.3", "ok", "", "", "">>

EnvLine(ts) ==
    <<ts, "dev1", "ATM01", "I2C", "0", "0", "22.1", "22.1", "ok", "45.2", "987.3", "12000">>

\* An environment record whose temperature is the token "null".
EnvNullLine(ts) ==
    <<ts, "dev1", "ATM01", "I2C", "0", "0", "null", "null", "ok", "45.2", "987.3", "12000">>

\* A temperature record whose pin is not a number.
BadPinLine(ts, name) ==
    <<ts, "dev1", name, "A", "N/A", "28FF1", "21.5", "21.3", "ok", "", "", "">>

LevelLine(ts) ==
    <<ts, "dev1", "LL01", "L", "5", "N/A", "N/A", "N/A", "ON">>

\* Timestamps of the stream: an ordinary winter morning, and the hour the
\* clock skips on the second Sunday of March 2026 with the hour after it.
TWinter == Iso(2026, 2, 19, 8, 0, 0)
TGap    == Iso(2026, 3, 8, 2, 30, 0)
TAfter  == Iso(2026, 3, 8, 3, 0, 0)

LiveTs == {TWinter, TGap, TAfter}

\* A JSON_UPLOAD document of the device: the whole batch of one instant.
BatchDoc(ts) ==
    Payload("dev1", ts,
            parse_csv_line(TempLine(ts, "TD01"))[1].readings,
            parse_csv_line(EnvLine(ts))[1].environment_sensor,
            parse_csv_line(LevelLine(ts))[1].level_sensor)

\* The document the device sends before its clock is set: the timestamp
\* is the text UPTIME_<seconds since boot>.
UptimeDoc == [BatchDoc(TWinter) EXCEPT !.timestamp = Uptime(5)]

CsvLines ==
    {TempLine(t, "TD01") : t \in LiveTs} \cup {EnvLine(t) : t \in LiveTs}
        \cup {LevelLine(t) : t \in LiveTs}

LiveLines ==
    {[form |-> "csv", parts |-> l, doc |-> None] : l \in CsvLines}
        \cup {[form |-> "json", parts |-> <<>>, doc |-> Some(BatchDoc(TWinter))],
              [form |-> "json", parts |-> <<>>, doc |-> Some(UptimeDoc)],
              [form |-> "badjson", parts |-> <<>>, doc |-> None],
              [form |-> "text", parts |-> <<>>, doc |-> None]}

(***************************************************************************)
(* The persistent store: three tables, each a bag of rows [inst, sensor]   *)
(* (inst the UTC second of the row's timestamptz).  Nothing in the store   *)
(* enforces uniqueness.                                                    *)
(***************************************************************************)
Families == {"temp", "level", "env"}

EmptyTable == [r \in {} |-> 0]

Copies(tbl, r) == IF r \in DOMAIN tbl THEN tbl[r] ELSE 0

AddRow(tbl, r) ==
    IF r \in DOMAIN tbl THEN [tbl EXCEPT ![r] = @ + 1] ELSE tbl @@ (r :> 1)

RECURSIVE AddRows(_, _)
AddRows(tbl, rows) ==
    IF rows = <<>> THEN tbl ELSE AddRows(AddRow(tbl, Head(rows)), Tail(rows))

Row(inst, sensor) == [inst |-> inst, sensor |-> sensor]

\* The instant the upload endpoint files a document under: the document
\* carries the device's naive Central text.
ServerInstant(ts) ==
    IF ts.k = "isoZ" THEN WallSeconds(ts) ELSE LocalToInstant(ts)

\* The rows a batch document {site_id, device_id, timestamp, readings,
\* environment_sensor?, level_sensor?} adds, per table.
DocRows(doc) ==
    LET at == ServerInstant(doc.timestamp) IN
    [f \in Families |->
        CASE f = "temp"  -> [i \in 1..Len(doc.readings) |->
                                Row(at, doc.readings[i].sensor_name)]
          [] f = "env"   -> [i \in 1..Len(doc.environment_sensor) |->
                                Row(at, doc.environment_sensor[i].sensor_name)]
          [] f = "level" -> [i \in 1..Len(doc.level_sensor) |->
                                Row(at, doc.level_sensor[i].sensor_name)]]

\* A document whose timestamp is no date has no instant to be filed
\* under.
ServerStore(st, doc) ==
    IF MatchesTimestamp(doc.timestamp)
    THEN [f \in Families |-> AddRows(st[f], DocRows(doc)[f])]
    ELSE st

\* What one POST can come to: a status of the endpoint, or an exception of
\* requests (connection error, timeout); a timeout may follow the server's
\* commit.
OkStatuses == {"200", "201"}

Responses ==
    {[status |-> "200", stored |-> TRUE], [status |-> "201", stored |-> TRUE],
     [status |-> "500", stored |-> FALSE],
     [status |-> "exception", stored |-> FALSE],
     [status |-> "exception", stored |-> TRUE]}

\* A physical reading: family, the device's timestamp text, sensor name.
Reading(f, ts, sensor) == [fam |-> f, ts |-> ts, sensor |-> sensor]

\* The readings of a document; those of a document without a date have
\* no instant and are not followed.
ReadingsOf(doc) ==
    IF ~MatchesTimestamp(doc.timestamp) THEN {}
    ELSE {Reading("temp", doc.timestamp, doc.readings[i].sensor_name) :
             i \in 1..Len(doc.readings)}
           \cup {Reading("env", doc.timestamp, doc.environment_sensor[i].sensor_name) :
                     i \in 1..Len(doc.environment_sensor)}
           \cup {Reading("level", doc.timestamp, doc.level_sensor[i].sensor_name) :
                     i \in 1..Len(doc.level_sensor)}

CopiesOf(st, r) == Copies(st[r.fam], Row(ServerInstant(r.ts), r.sensor))

(***************************************************************************)
(* State.                                                                  *)
(***************************************************************************)
VARIABLES
    store,        \* the three tables
    pc,           \* serial_uploader.main: "INIT", "STREAMING", "STOPPED", "EXIT"
    watermark,    \* serial_uploader.last_processed_timestamp
    last,         \* what the last call of upload_to_heroku printed
    nlines,       \* lines read from the serial port so far
    fetched,      \* history: how the GET of fetch_latest_timestamp ended
    rpc,          \* recover_from_log_dump.main: "idle", "uploading", "done"
    rfile,        \* history: the lines of the log file of the run
    batches,      \* its batches, by timestamp text
    rqueue,       \* sorted_timestamps still to upload
    success_count,
    rruns,        \* runs of recover_from_log_dump started
    bpc,          \* backfill: "idle", "query", "temp", "level", "env",
                  \*           "summary", "done", "crashed"
    bfile,        \* the CSV file of the run
    bounds_ts,    \* <<min_ts, max_ts>> of the run
    existing,     \* existing_temp, existing_level, existing_env
    to_insert,    \* temp_to_insert, level_to_insert, env_to_insert
    crash,        \* where the run died: the family and row of the traceback
    snap,         \* history: the store when the run queried it
    inserted,     \* the run's inserted counts
    skipped,      \* the run's skipped counts
    bruns,        \* runs of backfill started
    bprev,        \* history: the file and the end of the run before
    bcalls,       \* history: the store calls the run has made
    txn,          \* history: the run's last execute_values: the family,
                  \*   the pages sent and the page that failed (0: none)
    runA,         \* two runs of the live uploader fed the same lines in
    runB,         \*   two orders: [queue, store, watermark] each
    dec,          \* one record put through the decoders: the fields, what
                  \*   each decoder returned, and a run of the loop of
                  \*   serial_uploader.main fed the record and a good one
                  \*   (follow) after it
    norm,         \* one timestamp put through get_central_offset: the text
                  \*   and what the call returned
    cap,          \* a run of a dump-capture script: which script, where
                  \*   its loop is, the state of the line source, its counters
    delivered,    \* history: readings handed to a source's upload stage
    admitted,     \* history: readings a dedup filter let through
    attempts,     \* history: readings a write was attempted for
    storeFailed   \* history: some store call failed

liveVars == <<pc, watermark, last, nlines, fetched>>
histVars == <<delivered, admitted, attempts, storeFailed>>
recoverVars == <<rpc, rfile, batches, rqueue, success_count, rruns>>
bulkVars == <<bpc, bfile, bounds_ts, existing, to_insert, crash, snap,
              inserted, skipped, bruns, bprev, bcalls, txn>>
orderVars == <<runA, runB>>
decodeVars == <<dec>>
toolVars == <<norm, cap>>
vars == <<store, liveVars, recoverVars, bulkVars, orderVars, decodeVars, toolVars,
          histVars>>

MaxLines == 2
MaxRecoverRuns == 2
MaxBackfillRuns == 2

NoFile == [header |-> TRUE, rows |-> <<>>]
ZeroCounts == [f \in Families |-> 0]
NoTxn == [fam |-> "none", sent |-> 0, failed |-> 0]

NoCall == [n |-> 0, tag |-> "NONE", ts |-> EmptyStr, status |-> "none", posts |-> 0]

NoNorm == [ts |-> EmptyStr, offset |-> None]

NoCapture == [prog |-> "none", pc |-> "done", src |-> "sending", read |-> 0,
              empty_count |-> 0, clock |-> 0, line_count |-> 0,
              upload_count |-> 0, confirmed |-> 0, watermark |-> EpochZero,
              service |-> "running"]

NoRun == [queue |-> <<>>, store |-> [f \in Families |-> EmptyTable],
          watermark |-> EpochZero]

InitPipeline ==
    /\ store = [f \in Families |-> EmptyTable]
    /\ pc = "INIT"
    /\ watermark = EpochZero
    /\ last = NoCall
    /\ nlines = 0
    /\ fetched = "none"
    /\ rpc = "idle"
    /\ rfile = <<>>
    /\ batches = <<>>
    /\ rqueue = <<>>
    /\ success_count = 0
    /\ rruns = 0
    /\ bpc = "idle"
    /\ bfile = NoFile
    /\ bounds_ts = <<EmptyStr, EmptyStr>>
    /\ existing = [f \in Families |-> {}]
    /\ to_insert = [f \in Families |-> <<>>]
    /\ crash = None
    /\ snap = [f \in Families |-> EmptyTable]
    /\ inserted = ZeroCounts
    /\ skipped = ZeroCounts
    /\ bruns = 0
    /\ bprev = [file |-> NoFile, end |-> "none"]
    /\ bcalls = {}
    /\ txn = NoTxn
    /\ cap = NoCapture
    /\ delivered = {}
    /\ admitted = {}
    /\ attempts = {}
    /\ storeFailed = FALSE

NoDecode == [parts |-> <<>>, follow |-> <<>>, done |-> {}, csv |-> None, cat |-> None,
             log |-> None, row |-> None, run |-> NoRun]

Init ==
    InitPipeline /\ runA = NoRun /\ runB = NoRun /\ dec = NoDecode /\ norm = NoNorm

(***************************************************************************)
(* serial_uploader.py                                                      *)
(***************************************************************************)
\* GET ?limit=1 of the temperature endpoint: the newest reading's instant.
LatestInstant(st) ==
    LET insts == {r.inst : r \in DOMAIN st["temp"]}
    IN  IF insts = {} THEN None
        ELSE Some(CHOOSE n \in insts : \A m \in insts : m <= n)

\* How the GET of line 41 can end: 200 with the newest reading of the
\* store; "failed", which stands for the ends that all lead to line 73 (an
\* exception of requests, a status other than 200, a body with no
\* readings); 200 with a reading that has no 'timestamp'; 200 with a
\* timestamp that datetime.fromisoformat refuses.
FetchReplies == {"ok", "failed", "missing", "unparsable"}

\* The reply carries a timestamp that can be used.
Usable(st, reply) == reply = "ok" /\ LatestInstant(st) # None

\* fetch_latest_timestamp: the newest instant as naive Central text; the
\* value of .get('timestamp') itself when its conversion raises (line 68:
\* None when the key is missing, the raw text when it does not parse); the
\* epoch when the query fails or finds nothing.
fetch_latest_timestamp(st, reply) ==
    CASE reply = "ok" /\ LatestInstant(st) # None ->
             InstantToLocal(LatestInstant(st)[1])
      [] reply = "missing"    -> NoText
      [] reply = "unparsable" -> RawText
      [] OTHER                -> EpochZero

\* main, lines 174-187: sync the watermark, then open the serial port.
SyncWatermark ==
    /\ pc = "INIT"
    /\ \E reply \in FetchReplies, portOk \in BOOLEAN :
        /\ watermark' = fetch_latest_timestamp(store, reply)
        /\ fetched' = reply
        /\ pc' = IF portOk THEN "STREAMING" ELSE "EXIT"
        /\ storeFailed' = (storeFailed \/ reply # "ok")
    /\ UNCHANGED <<store, last, nlines, delivered, admitted, attempts>>
    /\ UNCHANGED <<recoverVars, bulkVars, orderVars, decodeVars, toolVars>>

\* The dedup check of upload_to_heroku (lines 80-83).
Admits(ts, wm) == ~PyStrLE(ts, wm)

\* Faulty variants of the update: the failure branch resets the watermark; the
\* status of the response is not looked at; every reply of the endpoint
\* counts, only an exception does not.
NextWatermarkResets(ts, wm, status) ==
    IF status \in OkStatuses /\ PyStrLT(wm, ts) THEN ts ELSE EpochZero

NextWatermarkAnyStatus(ts, wm, status) ==
    IF PyStrLT(wm, ts) THEN ts ELSE wm

NextWatermarkOnReply(ts, wm, status) ==
    IF status # "exception" /\ PyStrLT(wm, ts) THEN ts ELSE wm

\* The watermark after a POST (lines 92-96).
NextWatermark(ts, wm, status) ==
    IF status \in OkStatuses /\ PyStrLT(wm, ts) THEN ts ELSE wm

\* A faulty variant: after a POST that failed the watermark is fetched
\* from the store again and the POST is made once more.
upload_to_heroku_resyncs(doc, wm, st, resp) ==
    LET ts == doc.timestamp
        after == IF resp.stored THEN ServerStore(st, doc) ELSE st
    IN
    IF wm = NoText
    THEN [store |-> st, watermark |-> wm, tag |-> "RAISE", status |-> "none",
          posts |-> 0]
    ELSE IF ~Admits(ts, wm)
    THEN [store |-> st, watermark |-> wm, tag |-> "SKIP", status |-> "none",
          posts |-> 0]
    ELSE IF resp.status \in OkStatuses
    THEN [store |-> after, watermark |-> NextWatermark(ts, wm, resp.status),
          tag |-> "OK", status |-> resp.status, posts |-> 1]
    ELSE [store |-> after, watermark |-> fetch_latest_timestamp(after, "ok"),
          tag |-> "ERROR", status |-> resp.status, posts |-> 2]

\* upload_to_heroku(json_data) with watermark wm, store st and the POST
\* ending as resp: the store and the watermark after it, what it printed
\* ("RAISE": the comparison of line 81 raised and the loop of main caught
\* it at line 305) and the POSTs it made (line 90, once).
upload_to_heroku(doc, wm, st, resp) ==
    LET ts == doc.timestamp IN
    IF wm = NoText                               \* line 81: TypeError
    THEN [store |-> st, watermark |-> wm, tag |-> "RAISE", status |-> "none",
          posts |-> 0]
    ELSE IF ~Admits(ts, wm)
    THEN [store |-> st, watermark |-> wm, tag |-> "SKIP", status |-> "none",
          posts |-> 0]
    ELSE [store |-> IF resp.stored THEN ServerStore(st, doc) ELSE st,
          watermark |-> NextWatermark(ts, wm, resp.status),
          tag |-> IF resp.status \in OkStatuses THEN "OK" ELSE "ERROR",
          status |-> resp.status, posts |-> 1]

\* What the loop of main hands to upload_to_heroku for a line (lines
\* 270-294): the JSON document, the payload of a CSV record, or nothing.
LinePayload(line) ==
    IF line.form = "json" THEN line.doc
    ELSE IF line.form = "csv" THEN parse_csv_line(line.parts)
    ELSE None

\* One turn of the loop of main (lines 261-308) with a line waiting.
LiveLine ==
    /\ pc = "STREAMING"
    /\ nlines < MaxLines
    /\ nlines' = nlines + 1
    /\ pc' = pc
    /\ UNCHANGED fetched
    /\ UNCHANGED <<recoverVars, bulkVars, orderVars, decodeVars, toolVars>>
    /\ \E line \in LiveLines, resp \in Responses :
        LET payload == LinePayload(line) IN
        IF payload = None
        THEN UNCHANGED <<store, watermark, last, histVars>>
        ELSE LET doc == payload[1]
                 out == upload_to_heroku(doc, watermark, store, resp)
             IN  /\ store' = out.store
                 /\ watermark' = out.watermark
                 /\ last' = [n |-> last.n + 1, tag |-> out.tag,
                             ts |-> doc.timestamp, status |-> out.status,
                             posts |-> out.posts]
                 /\ delivered' = delivered \cup ReadingsOf(doc)
                 /\ IF out.tag \in {"SKIP", "RAISE"}
                    THEN UNCHANGED <<admitted, attempts, storeFailed>>
                    ELSE /\ admitted' = admitted \cup ReadingsOf(doc)
                         /\ attempts' = attempts \cup ReadingsOf(doc)
                         /\ storeFailed' = (storeFailed \/ out.tag = "ERROR")

\* KeyboardInterrupt ends the loop.
LiveStop ==
    /\ pc = "STREAMING"
    /\ pc' = "STOPPED"
    /\ UNCHANGED <<store, watermark, last, nlines, fetched, histVars>>
    /\ UNCHANGED <<recoverVars, bulkVars, orderVars, decodeVars, toolVars>>

\* systemd starts the service again: a new process, the module's globals
\* as at import (line 26).
LiveStart ==
    /\ pc \in {"STOPPED", "EXIT"}
    /\ pc' = "INIT"
    /\ watermark' = EpochZero
    /\ last' = NoCall
    /\ UNCHANGED <<store, nlines, fetched, histVars>>
    /\ UNCHANGED <<recoverVars, bulkVars, orderVars, decodeVars, toolVars>>

LiveNext == SyncWatermark \/ LiveLine \/ LiveStop \/ LiveStart

(***************************************************************************)
(* recover_from_log_dump.py                                                *)
(***************************************************************************)
\* A line of the journal: the text after "[Arduino]" split at the commas,
\* or a line without that mark.
ArduinoLine(parts) == [mark |-> TRUE, parts |-> parts]
OtherLine == [mark |-> FALSE, parts |-> <<>>]

\* parse_line: Some(<<timestamp, data>>) or None.
parse_line(line) ==
    LET parts == line.parts
        n == Len(parts)
    IN
    IF ~line.mark THEN None
    ELSE IF n < 1 \/ ~MatchesTimestamp(parts[1]) THEN None
    ELSE IF n < 3 THEN None                      \* parts[1], parts[2]: IndexError
    ELSE IF n >= 9 /\ parts[4] \in {"A", "B"} THEN
        LET raw == NullableFloat(parts[7])
            cal == NullableFloat(parts[8])
        IN  IF IsInt(parts[5]) /\ raw.ok /\ cal.ok
            THEN Some(<<parts[1],
                        [type |-> "temp", device_id |-> parts[2],
                         data |-> [sensor_name |-> parts[3], bus |-> parts[4],
                                   pin |-> IntValue(parts[5]), rom |-> parts[6],
                                   raw_temp_c |-> raw.v, temp_c |-> cal.v,
                                   status |-> parts[9]]]>>)
            ELSE None
    ELSE IF parts[3] = "ATM01" /\ n >= 12 THEN
        IF IsFloat(parts[7]) /\ IsFloat(parts[10]) /\ IsFloat(parts[11]) /\ IsFloat(parts[12])
        THEN Some(<<parts[1],
                    [type |-> "env", device_id |-> parts[2],
                     data |-> [sensor_name |-> parts[3], type |-> "BME680",
                               temp_c |-> FloatValue(parts[7]),
                               humidity |-> FloatValue(parts[10]),
                               pressure_hpa |-> FloatValue(parts[11]),
                               gas_resistance_ohms |-> FloatValue(parts[12])]]>>)
        ELSE None
    ELSE IF n < 4 THEN None
    ELSE IF parts[4] = "L" THEN
        IF n >= 9 /\ IsInt(parts[5])
        THEN Some(<<parts[1],
                    [type |-> "level", device_id |-> parts[2],
                     data |-> [sensor_name |-> parts[3], pin |-> IntValue(parts[5]),
                               state |-> parts[9]]]>>)
        ELSE None
    ELSE None

\* The batch of a timestamp not seen before (the defaultdict's factory).
NewBatch == Payload("", EmptyStr, <<>>, None, None)

\* Lines 135-144: one parsed reading put into its batch.
AddToBatch(batch, ts, data) ==
    LET b == [batch EXCEPT !.timestamp = ts, !.device_id = data.device_id] IN
    CASE data.type = "temp"  -> [b EXCEPT !.readings = Append(@, data.data)]
      [] data.type = "env"   -> [b EXCEPT !.environment_sensor = Some(data.data)]
      [] data.type = "level" -> [b EXCEPT !.level_sensor = Some(data.data)]

\* Lines 129-146: the batches of a log file, a function of the timestamps.
RECURSIVE AssembleBatches(_, _)
AssembleBatches(lines, acc) ==
    IF lines = <<>> THEN acc
    ELSE LET result == parse_line(Head(lines)) IN
         IF result = None THEN AssembleBatches(Tail(lines), acc)
         ELSE LET ts == result[1][1]
                  data == result[1][2]
                  old == IF ts \in DOMAIN acc THEN acc[ts] ELSE NewBatch
                  new == AddToBatch(old, ts, data)
              IN  AssembleBatches(Tail(lines),
                      [t \in DOMAIN acc \cup {ts} |-> IF t = ts THEN new ELSE acc[t]])

\* sorted(keys, reverse=True): the keys from the latest to the earliest.
RECURSIVE SortedTextsReversed(_)
SortedTextsReversed(S) ==
    IF S = {} THEN <<>>
    ELSE LET m == CHOOSE a \in S : \A b \in S : PyStrLE(b, a)
         IN  <<m>> \o SortedTextsReversed(S \ {m})

\* sorted(keys): ascending in Python's order of str.
RECURSIVE SortedTexts(_)
SortedTexts(S) ==
    IF S = {} THEN <<>>
    ELSE LET m == CHOOSE a \in S : \A b \in S : PyStrLE(a, b)
         IN  <<m>> \o SortedTexts(S \ {m})

\* The record as another device of the site writes it.
OfDevice(parts, dev) == [parts EXCEPT ![2] = dev]

LogFiles ==
    { <<ArduinoLine(TempLine(TWinter, "TD01")), ArduinoLine(LevelLine(TWinter))>>,
      <<ArduinoLine(TempLine(TWinter, "TD01")),
        ArduinoLine(OfDevice(LevelLine(TWinter), "dev2"))>>,
      <<ArduinoLine(EnvLine(TWinter)),
        ArduinoLine([EnvLine(TWinter) EXCEPT ![7] = "21.5"])>>,
      <<ArduinoLine(TempLine(TAfter, "TD01")), OtherLine,
        ArduinoLine(EnvLine(TWinter)), ArduinoLine(TempLine(TWinter, "TD01"))>> }

\* main, lines 117-154: read the file, group, sort.
RecoverStart ==
    /\ rpc \in {"idle", "done"}
    /\ rruns < MaxRecoverRuns
    /\ \E file \in LogFiles :
        /\ rfile' = file
        /\ batches' = AssembleBatches(file, <<>>)
        /\ rqueue' = SortedTexts(DOMAIN batches')
    /\ rpc' = "uploading"
    /\ success_count' = 0
    /\ rruns' = rruns + 1
    /\ UNCHANGED <<store, liveVars, bulkVars, orderVars, decodeVars, toolVars, histVars>>

\* One turn of the loop of lines 156-159: upload_batch of the next batch.
RecoverUpload ==
    /\ rpc = "uploading"
    /\ rqueue # <<>>
    /\ \E resp \in Responses :
        LET doc == batches[Head(rqueue)] IN
        /\ store' = IF resp.stored THEN ServerStore(store, doc) ELSE store
        /\ success_count' = IF resp.status \in OkStatuses
                            THEN success_count + 1 ELSE success_count
        /\ storeFailed' = (storeFailed \/ resp.status \notin OkStatuses)
        /\ delivered' = delivered \cup ReadingsOf(doc)
        /\ attempts' = attempts \cup ReadingsOf(doc)
    /\ rqueue' = Tail(rqueue)
    /\ UNCHANGED <<rpc, rfile, batches, rruns, admitted, liveVars, bulkVars, orderVars, decodeVars, toolVars>>

\* Line 161.
RecoverDone ==
    /\ rpc = "uploading"
    /\ rqueue = <<>>
    /\ rpc' = "done"
    /\ UNCHANGED <<store, rfile, batches, rqueue, success_count, rruns>>
    /\ UNCHANGED <<liveVars, bulkVars, orderVars, decodeVars, toolVars, histVars>>

RecoverNext == RecoverStart \/ RecoverUpload \/ RecoverDone


(***************************************************************************)
(* backfill_sd_data.py                                                     *)
(***************************************************************************)
\* sensor.startswith("TD") / ("LL") / ("ATM") on the names of the model.
SensorFamily(name) ==
    CASE name \in {"TD01", "TD02"} -> "temp"
      [] name \in {"LL01"}         -> "level"
      [] name \in {"ATM01"}        -> "env"
      [] OTHER                     -> "none"

\* The rows of one family.  Every row of the files below has its twelve
\* fields; a row with an empty sensor name is passed over.
SelectRows(rows, f) ==
    SelectSeq(rows, LAMBDA r : Len(r) >= 3 /\ r[3] # "" /\ SensorFamily(r[3]) = f)

\* parse_csv: the rows by family.  csv.DictReader reads the first line of
\* the file as the column names: without the header line the first record
\* names the columns, no row has a "sensor_name", and every row is passed
\* over.
parse_csv(file) ==
    [f \in Families |->
        IF file.header THEN SelectRows(file.rows, f) ELSE <<>>]

\* ts.startswith("UPTIME")
IsUptime(ts) == ts.k = "uptime"

\* datetime.fromisoformat(ts_str) accepts the text.  (Python before 3.11
\* refuses a trailing Z; from 3.11 on the Z text is read and the offset
\* appended to it gives a text the store refuses: the run dies either way.)
Normalizable(ts) == ts.k = "iso" /\ ValidCivil(ts)

\* A faulty variant: the standard offset all the year.
get_central_offset_standard(ts) == StdOffsetHours

\* get_central_offset(ts_str), in hours.
get_central_offset(ts) == LocalOffsetHours(ts)

\* The instant of db_ts = ts + get_central_offset(ts).
DbInstant(ts) == WallSeconds(ts) - get_central_offset(ts) * 3600

\* float(x) if x and x != "null" else None, and whether float() raised.
BlankableFloat(tok) ==
    IF tok = "" \/ tok = "null" THEN [ok |-> TRUE, v |-> None]
    ELSE IF IsFloat(tok) THEN [ok |-> TRUE, v |-> Some(FloatValue(tok))]
    ELSE [ok |-> FALSE, v |-> None]

\* float(x) if x and x != "null" else None does not raise.
BlankableFloatOk(tok) == tok = "" \/ tok = "null" \/ IsFloat(tok)

\* The conversions of one row (lines 139-151, 180-185, 214-226) succeed:
\* every column read is there (.strip() of None raises), the numbers
\* parse, the timestamp is a calendar time.
Converts(f, row) ==
    /\ Normalizable(row[1])
    /\ CASE f = "temp"  -> /\ Len(row) >= 9
                           /\ IsInt(row[5])
                           /\ BlankableFloatOk(row[7])
                           /\ BlankableFloatOk(row[8])
         [] f = "level" -> /\ Len(row) >= 9
                           /\ IsInt(row[5])
         [] f = "env"   -> /\ Len(row) >= 12
                           /\ BlankableFloatOk(row[7])
                           /\ BlankableFloatOk(row[10])
                           /\ BlankableFloatOk(row[11])
                           /\ BlankableFloatOk(row[12])

\* The loop over the rows of one family (lines 126-151): the rows to
\* insert and the count of rows skipped, or the row the loop died at.
RECURSIVE Scan(_, _, _, _, _, _)
Scan(f, rows, i, exist, acc, skips) ==
    IF i > Len(rows) THEN [died |-> 0, rows |-> acc, skipped |-> skips]
    ELSE LET row == rows[i]
             ts == row[1]
         IN  IF IsUptime(ts) THEN Scan(f, rows, i + 1, exist, acc, skips + 1)
             ELSE IF <<ts, row[3]>> \in exist
                  THEN Scan(f, rows, i + 1, exist, acc, skips + 1)
             ELSE IF ~Converts(f, row)
                  THEN [died |-> i, rows |-> acc, skipped |-> skips]
             ELSE Scan(f, rows, i + 1, exist,
                       Append(acc, Row(DbInstant(ts), row[3])), skips)

\* The store reads a timestamp text of a query in the session's time zone,
\* UTC.
PgInstant(ts) == WallSeconds(ts)

\* A faulty variant of the lookup: every family is looked up in one table.
get_existing_one_table(f, st, min_ts, max_ts) ==
    {<<InstantToUtcText(r.inst), r.sensor>> :
        r \in {q \in DOMAIN st["level"] :
                  PgInstant(min_ts) <= q.inst /\ q.inst <= PgInstant(max_ts)}}

\* get_existing(table_name): the keys of the table in the range of the
\* file, the timestamp printed as UTC text with a Z.
get_existing(f, st, min_ts, max_ts) ==
    {<<InstantToUtcText(r.inst), r.sensor>> :
        r \in {q \in DOMAIN st[f] :
                  PgInstant(min_ts) <= q.inst /\ q.inst <= PgInstant(max_ts)}}

\* The timestamps of the rows (lines 93-97).
DatedTs(cat) ==
    UNION {{cat[f][i][1] : i \in 1..Len(cat[f])} : f \in Families}

MinText(S) == CHOOSE a \in S : \A b \in S : PyStrLE(a, b)
MaxText(S) == CHOOSE a \in S : \A b \in S : PyStrLE(b, a)

\* A CSV dump of the card: whether it starts with the header line, and
\* its records.
CsvFile(header, rows) == [header |-> header, rows |-> rows]

\* The winter instant as the store prints it.
TWinterZ == InstantToUtcText(LocalToInstant(TWinter))

BulkFiles ==
    { CsvFile(TRUE, <<TempLine(TWinter, "TD01"), LevelLine(TWinter), EnvLine(TWinter)>>),
      CsvFile(TRUE, <<TempLine(TWinterZ, "TD01"), LevelLine(TWinter)>>),
      CsvFile(TRUE, <<TempLine(Uptime(5), "TD01"), TempLine(TAfter, "TD01")>>),
      CsvFile(FALSE, <<TempLine(TWinter, "TD01"), LevelLine(TWinter)>>),
      CsvFile(TRUE, <<TempLine(TWinter, "TD01"), TempLine(TWinter, "TD02"),
                      TempLine(TAfter, "TD01")>>),
      CsvFile(TRUE, <<EnvNullLine(TAfter)>>),
      CsvFile(TRUE, <<BadPinLine(TWinter, "TD01"), TempLine(TWinter, "TD02")>>),
      CsvFile(TRUE, <<TempLine(TWinter, "TD01"), TempLine(TWinter, "TD01")>>),
      CsvFile(TRUE, <<>>) }

\* len(temp_rows) + len(level_rows) + len(env_rows)
Total(cat) == Len(cat["temp"]) + Len(cat["level"]) + Len(cat["env"])

\* A faulty variant: the connection is opened before the rows are looked
\* at.
backfill_connects_first(cat, connectOk) ==
    LET all_ts == {t \in DatedTs(cat) : ~IsUptime(t)} IN
    IF ~connectOk
    THEN [pc |-> "crashed", bounds |-> <<EmptyStr, EmptyStr>>,
          calls |-> {"connect"}, failed |-> TRUE]
    ELSE IF Total(cat) = 0 \/ all_ts = {}
    THEN [pc |-> "done", bounds |-> <<EmptyStr, EmptyStr>>,
          calls |-> {"connect"}, failed |-> FALSE]
    ELSE [pc |-> "query", bounds |-> <<MinText(all_ts), MaxText(all_ts)>>,
          calls |-> {"connect"}, failed |-> FALSE]

\* backfill, lines 81-107, on the rows of the file: return when there is
\* no row (line 87) or no dated row (line 99), else find the range and
\* connect.
backfill_begin(cat, connectOk) ==
    LET all_ts == {t \in DatedTs(cat) : ~IsUptime(t)} IN
    IF Total(cat) = 0
    THEN [pc |-> "done", bounds |-> <<EmptyStr, EmptyStr>>,
          calls |-> {}, failed |-> FALSE]
    ELSE IF all_ts = {}
    THEN [pc |-> "done", bounds |-> <<EmptyStr, EmptyStr>>,
          calls |-> {}, failed |-> FALSE]
    ELSE [pc |-> IF connectOk THEN "query" ELSE "crashed",
          bounds |-> <<MinText(all_ts), MaxText(all_ts)>>,
          calls |-> {"connect"}, failed |-> ~connectOk]

\* The start of a run of backfill.
BackfillStart ==
    /\ bpc \in {"idle", "done", "crashed"}
    /\ bruns < MaxBackfillRuns
    /\ bruns' = bruns + 1
    /\ bprev' = [file |-> bfile, end |-> bpc]
    /\ \E file \in BulkFiles, connectOk \in BOOLEAN :
        LET out == backfill_begin(parse_csv(file), connectOk)
        IN  /\ bfile' = file
            /\ bpc' = out.pc
            /\ bounds_ts' = out.bounds
            /\ bcalls' = out.calls
            /\ storeFailed' = (storeFailed \/ out.failed)
    /\ existing' = [f \in Families |-> {}]
    /\ to_insert' = [f \in Families |-> <<>>]
    /\ crash' = None
    /\ inserted' = ZeroCounts
    /\ skipped' = ZeroCounts
    /\ txn' = NoTxn
    /\ UNCHANGED <<store, snap, liveVars, recoverVars, orderVars, decodeVars, toolVars, delivered, admitted, attempts>>

\* Lines 117-120: the three queries.
BackfillFetchExisting ==
    /\ bpc = "query"
    /\ bcalls' = bcalls \cup {"query"}
    /\ \E queryOk \in BOOLEAN :
        IF queryOk /\ ValidCivil(bounds_ts[1]) /\ ValidCivil(bounds_ts[2])
        THEN /\ existing' = [f \in Families |->
                                get_existing(f, store, bounds_ts[1], bounds_ts[2])]
             /\ snap' = store
             /\ bpc' = "temp"
             /\ UNCHANGED storeFailed
        ELSE /\ bpc' = "crashed"
             /\ storeFailed' = TRUE
             /\ UNCHANGED <<existing, snap>>
    /\ UNCHANGED <<store, bfile, bounds_ts, to_insert, crash, inserted, skipped, bruns, bprev, txn>>
    /\ UNCHANGED <<liveVars, recoverVars, orderVars, decodeVars, toolVars, delivered, admitted, attempts>>

NextPhase(f) ==
    CASE f = "temp" -> "level" [] f = "level" -> "env" [] f = "env" -> "summary"

RowReading(f, row) == Reading(f, row[1], row[3])

\* execute_values(cur, sql, rows, page_size=1000) sends the rows in pages,
\* one INSERT statement a page.  The size of a page is scaled down here.
page_size == 2

NumPages(rows) == (Len(rows) + page_size - 1) \div page_size

\* One family's block (lines 125-164, 166-198, 200-239): the loop over its
\* rows, then, when there is something to insert, execute_values and
\* commit.  The pages go in one transaction: the commit of line 164 comes
\* after the last page, and a page that fails raises out of backfill
\* before it, so the store keeps none of the pages sent.
BackfillFamily(f) ==
    /\ bpc = f
    /\ LET rows == parse_csv(bfile)[f]
           scan == Scan(f, rows, 1, existing[f], <<>>, 0)
           dated == {RowReading(f, rows[i]) : i \in {j \in 1..Len(rows) : ~IsUptime(rows[j][1])}}
           admits == {RowReading(f, rows[i]) :
                        i \in {j \in 1..Len(rows) :
                                 /\ ~IsUptime(rows[j][1])
                                 /\ <<rows[j][1], rows[j][3]>> \notin existing[f]}}
       IN  IF scan.died # 0
           THEN /\ bpc' = "crashed"
                /\ crash' = Some([fam |-> f, row |-> scan.died])
                /\ UNCHANGED <<store, to_insert, inserted, skipped, bcalls, txn, histVars>>
           ELSE /\ to_insert' = [to_insert EXCEPT ![f] = scan.rows]
                /\ skipped' = [skipped EXCEPT ![f] = scan.skipped]
                /\ delivered' = delivered \cup dated
                /\ admitted' = admitted \cup admits
                /\ IF scan.rows = <<>>
                   THEN /\ bpc' = NextPhase(f)
                        /\ UNCHANGED <<store, inserted, crash, bcalls, txn, attempts, storeFailed>>
                   ELSE /\ attempts' = attempts \cup admits
                        /\ \E failPage \in 0..NumPages(scan.rows) :
                            IF failPage = 0
                            THEN /\ store' = [store EXCEPT ![f] = AddRows(@, scan.rows)]
                                 /\ inserted' = [inserted EXCEPT ![f] = @ + Len(scan.rows)]
                                 /\ bpc' = NextPhase(f)
                                 /\ bcalls' = bcalls \cup {"insert", "commit"}
                                 /\ txn' = [fam |-> f, sent |-> NumPages(scan.rows), failed |-> 0]
                                 /\ UNCHANGED <<crash, storeFailed>>
                            ELSE /\ bpc' = "crashed"
                                 /\ crash' = Some([fam |-> f, row |-> 0])
                                 /\ storeFailed' = TRUE
                                 /\ bcalls' = bcalls \cup {"insert"}
                                 /\ txn' = [fam |-> f, sent |-> failPage - 1, failed |-> failPage]
                                 /\ UNCHANGED <<store, inserted>>
    /\ UNCHANGED <<bfile, bounds_ts, existing, snap, bruns, bprev, liveVars, recoverVars, orderVars, decodeVars, toolVars>>

BackfillTemp == BackfillFamily("temp")
BackfillLevel == BackfillFamily("level")
BackfillEnv == BackfillFamily("env")

\* Lines 241-251: close and print the summary.
BackfillSummary ==
    /\ bpc = "summary"
    /\ bpc' = "done"
    /\ UNCHANGED <<store, bfile, bounds_ts, existing, to_insert, crash, snap,
                   inserted, skipped, bruns, bprev, bcalls, txn>>
    /\ UNCHANGED <<liveVars, recoverVars, orderVars, decodeVars, toolVars, histVars>>

BulkNext ==
    \/ BackfillStart
    \/ BackfillFetchExisting
    \/ BackfillTemp
    \/ BackfillLevel
    \/ BackfillEnv
    \/ BackfillSummary

\* One turn of the loop on the next line of a run.
RunLine(run) ==
    LET payload == LinePayload(Head(run.queue)) IN
    IF payload = None THEN [run EXCEPT !.queue = Tail(@)]
    ELSE LET out == upload_to_heroku(payload[1], run.watermark, run.store,
                                     [status |-> "200", stored |-> TRUE])
         IN  [queue |-> Tail(run.queue), store |-> out.store,
              watermark |-> out.watermark]

(***************************************************************************)
(* One record through the three decoders.                                  *)
(***************************************************************************)
\* The tuple a row of the file becomes in temp_to_insert (line 151),
\* level_to_insert (line 185) or env_to_insert (line 226).
row_values(f, row) ==
    CASE f = "temp"  -> [sensor_name |-> row[3], bus |-> row[4],
                         pin |-> IntValue(row[5]), rom |-> row[6],
                         raw_temp_c |-> BlankableFloat(row[7]).v,
                         temp_c |-> BlankableFloat(row[8]).v,
                         status |-> row[9]]
      [] f = "level" -> [sensor_name |-> row[3], pin |-> IntValue(row[5]),
                         state |-> row[9]]
      [] f = "env"   -> [sensor_name |-> row[3],
                         temp_c |-> BlankableFloat(row[7]).v,
                         humidity |-> BlankableFloat(row[10]).v,
                         pressure_hpa |-> BlankableFloat(row[11]).v,
                         gas_resistance_ohms |-> BlankableFloat(row[12]).v]

\* parse_csv on a file of the header line and one row: the family the row
\* is put in, or nothing (the row is passed over), or an exception (a row
\* cut before its sensor name has None there, and None.strip() raises).
categorise(row) ==
    IF Len(row) < 3 THEN Raised
    ELSE LET rows == parse_csv([header |-> TRUE, rows |-> <<row>>]) IN
         IF \E f \in Families : rows[f] # <<>>
         THEN Some(CHOOSE f \in Families : rows[f] # <<>>)
         ELSE None

\* What backfill makes of one row of a file with the header line, the
\* store empty: nothing (the row is passed over or skipped), the tuple to
\* insert, or an exception (a row too short for the header has None in
\* the missing columns, and None.strip() raises).
backfill_row(row) ==
    IF Len(row) < 3 THEN Raised
    ELSE LET f == SensorFamily(row[3]) IN
         IF row[3] = "" \/ f = "none" THEN None
         ELSE IF IsUptime(row[1]) THEN None
         ELSE IF ~Converts(f, row) THEN Raised
         ELSE Some(row_values(f, row))

\* The records tried: the fields of a full record, each drawn from a few
\* texts, cut to a few lengths.
FullRecords ==
    {<<ts, "dev1", name, tag, pin, "28FF1", raw, cal, "ok", hum, "987.3", "12000">> :
        ts \in {TWinter, Uptime(5)}, name \in {"TD01", "ATM01", "LL01"},
        tag \in {"A", "B", "L", "I2C"}, pin \in {"2", "N/A"},
        raw \in {"21.5", "null", "bad"}, cal \in {"21.3", "null"},
        hum \in {"45.2", "null"}}

RecordLengths == {2, 3, 4, 8, 9, 12}

DecoderInputs == {SubSeq(r, 1, n) : r \in FullRecords, n \in RecordLengths}

CsvStreamLine(parts) == [form |-> "csv", parts |-> parts, doc |-> None]

InitDecode ==
    /\ InitPipeline
    /\ norm = NoNorm
    /\ runA = NoRun
    /\ runB = NoRun
    /\ \E parts \in DecoderInputs,
          follow \in {TempLine(TAfter, "TD01"), TempLine(TWinter, "TD01")} :
        dec = [NoDecode EXCEPT
                  !.parts = parts,
                  !.follow = follow,
                  !.run = [NoRun EXCEPT !.queue =
                              <<CsvStreamLine(parts), CsvStreamLine(follow)>>]]

DecodeCsv ==
    /\ "csv" \notin dec.done
    /\ dec' = [dec EXCEPT !.csv = parse_csv_line(dec.parts), !.done = @ \cup {"csv"}]
    /\ UNCHANGED <<store, liveVars, recoverVars, bulkVars, orderVars, toolVars, histVars>>

DecodeLog ==
    /\ "log" \notin dec.done
    /\ dec' = [dec EXCEPT !.log = parse_line(ArduinoLine(dec.parts)),
                          !.done = @ \cup {"log"}]
    /\ UNCHANGED <<store, liveVars, recoverVars, bulkVars, orderVars, toolVars, histVars>>

DecodeRow ==
    /\ "row" \notin dec.done
    /\ dec' = [dec EXCEPT !.cat = categorise(dec.parts),
                          !.row = backfill_row(dec.parts), !.done = @ \cup {"row"}]
    /\ UNCHANGED <<store, liveVars, recoverVars, bulkVars, orderVars, toolVars, histVars>>

\* One turn of the loop of serial_uploader.main on the run of the record.
DecodeStream ==
    /\ dec.run.queue # <<>>
    /\ dec' = [dec EXCEPT !.run = RunLine(dec.run)]
    /\ UNCHANGED <<store, liveVars, recoverVars, bulkVars, orderVars, toolVars, histVars>>

DecodeNext == DecodeCsv \/ DecodeLog \/ DecodeRow \/ DecodeStream

(***************************************************************************)
(* One timestamp through get_central_offset: days in each half of the      *)
(* year, the days of the two transitions of 2026 and the days around       *)
(* them, a day that is not in the calendar; times around 01:00, 02:00 and  *)
(* 03:00.                                                                  *)
(***************************************************************************)
OffsetInputs ==
    LET dates == {<<1, 15>>, <<7, 15>>, <<3, 7>>, <<3, 8>>, <<3, 9>>, <<10, 31>>,
                  <<11, 1>>, <<11, 2>>, <<2, 30>>}
        times == {<<0, 59, 59>>, <<1, 0, 0>>, <<1, 30, 0>>, <<1, 59, 59>>,
                  <<2, 0, 0>>, <<2, 30, 0>>, <<2, 59, 59>>, <<3, 0, 0>>, <<8, 0, 0>>}
    IN  {Iso(2026, d[1], d[2], t[1], t[2], t[3]) : d \in dates, t \in times}

InitOffset ==
    /\ InitPipeline
    /\ runA = NoRun
    /\ runB = NoRun
    /\ dec = NoDecode
    /\ \E ts \in OffsetInputs : norm = [NoNorm EXCEPT !.ts = ts]

\* The call of line 150; datetime.fromisoformat raises on a text that is
\* no calendar time.
Normalize ==
    /\ norm.offset = None
    /\ norm' = [norm EXCEPT !.offset =
                    IF Normalizable(norm.ts) THEN Some(get_central_offset(norm.ts))
                    ELSE Raised]
    /\ UNCHANGED <<store, liveVars, recoverVars, bulkVars, orderVars, decodeVars,
                   cap, histVars>>

(***************************************************************************)
(* The loops that capture a dump of the card: force_sd_dump.main,          *)
(* retrieve_sd_data.retrieve_data, standalone_dump.main.  The line source  *)
(* is "sending", or "stalled" (no byte comes any more), or "ended" (the    *)
(* port is gone); once it has stopped it does not come back.               *)
(***************************************************************************)
MaxDumpLines == 2

\* empty_count > 15 (retrieve_sd_data.py:80) and the 1200 s of
\* standalone_dump.py:226 in turns of the loop, scaled down.
empty_limit == 2
dump_timeout == 3

CapturePrograms == {"force", "retrieve", "standalone"}

\* What the device sends after the start marker of a dump: records, a
\* record cut short, a line of text, the end marker.
DumpLines ==
    {CsvStreamLine(TempLine(TWinter, "TD01")), CsvStreamLine(TempLine(TAfter, "TD01")),
     CsvStreamLine(<<TWinter, "dev1">>),
     [form |-> "text", parts |-> <<>>, doc |-> None],
     [form |-> "end", parts |-> <<>>, doc |-> None]}

\* force_sd_dump.py:22 and standalone_dump.py:176 stop the live logger
\* service; retrieve_sd_data leaves it alone.
StopsService(prog) == prog \in {"force", "standalone"}

\* The finally block of force_sd_dump.main (lines 92-99), entered from the
\* loop: the service is started again.
ForceEnds(c) == [c EXCEPT !.pc = "done", !.service = "running"]

\* The script that could not open the port.  force_sd_dump: the handler of
\* line 90 prints the error, and the finally block raises at line 96
\* (line_count is not yet bound) before it reaches the restart of line 98.
\* standalone_dump: unstick_and_connect returns None and the fatal exit of
\* lines 211-215 starts the service.  retrieve_sd_data: sys.exit(1).
OpenFails(c) ==
    [c EXCEPT !.pc = "done",
              !.service = IF c.prog = "standalone" THEN "running" ELSE @]

\* The script starts: it stops the service if it is one that does, and
\* opens the port; force_sd_dump sets the watermark from the store
\* (line 34), the two others upload nothing.
CaptureStart ==
    /\ cap.prog = "none"
    /\ \E prog \in CapturePrograms, reply \in FetchReplies, opens \in BOOLEAN :
        /\ prog # "force" => reply = "ok"
        /\ LET c == [NoCapture EXCEPT
                      !.prog = prog, !.pc = "loop",
                      !.service = IF StopsService(prog) THEN "stopped" ELSE @,
                      !.watermark = IF prog = "force"
                                    THEN fetch_latest_timestamp(store, reply)
                                    ELSE EpochZero]
           IN  cap' = IF opens THEN c ELSE OpenFails(c)
    /\ UNCHANGED <<store, liveVars, recoverVars, bulkVars, orderVars, decodeVars,
                   norm, histVars>>

\* The device stops sending, for good.
SourceStops ==
    /\ cap.pc = "loop"
    /\ cap.src = "sending"
    /\ \E how \in {"stalled", "ended"} : cap' = [cap EXCEPT !.src = how]
    /\ UNCHANGED <<store, liveVars, recoverVars, bulkVars, orderVars, decodeVars,
                   norm, histVars>>

\* Ctrl+C while the loop runs.  force_sd_dump: the handler of line 88 and
\* the finally block.  standalone_dump has no handler: the script dies
\* where it is.  retrieve_sd_data: the script dies.  In force_sd_dump and
\* retrieve_sd_data an interrupt that arrives during readline is swallowed
\* by the bare except around it and the loop goes on.
UserAbort ==
    /\ cap.pc = "loop"
    /\ \E swallowed \in BOOLEAN :
         cap' = CASE cap.prog = "force"      ->
                         IF swallowed THEN cap ELSE ForceEnds(cap)
                  [] cap.prog = "standalone" -> [cap EXCEPT !.pc = "done"]
                  [] cap.prog = "retrieve"   ->
                         IF swallowed THEN cap ELSE [cap EXCEPT !.pc = "done"]
    /\ UNCHANGED <<store, liveVars, recoverVars, bulkVars, orderVars, decodeVars,
                   norm, histVars>>

\* The time a turn of a loop takes; the model counts it up to dump_timeout.
Tick(c) == IF c < dump_timeout THEN c + 1 ELSE c

\* One turn of the loop of force_sd_dump.main (lines 52-86) and the
\* handlers around it (lines 88-96).  A line is waiting: the end marker
\* breaks; a record is parsed, handed to upload_to_heroku and counted.
\* Nothing is waiting: sleep and look again, which changes nothing (the
\* loop reads no clock: start_time is never used).  The port is gone:
\* ser.in_waiting raises and the handler of line 90 ends the loop.
ForceTurn ==
    /\ cap.prog = "force"
    /\ cap.pc = "loop"
    /\ UNCHANGED <<liveVars, recoverVars, bulkVars, orderVars, decodeVars, norm, histVars>>
    /\ CASE cap.src = "stalled" ->
               UNCHANGED <<cap, store>>
         [] cap.src = "ended" ->
               /\ cap' = ForceEnds(cap)
               /\ UNCHANGED store
         [] cap.src = "sending" ->
               /\ cap.read < MaxDumpLines
               /\ \E line \in DumpLines, resp \in Responses :
                    LET c == [cap EXCEPT !.read = @ + 1]
                        payload == LinePayload(line)
                    IN
                    IF line.form = "end"
                    THEN cap' = ForceEnds(c) /\ UNCHANGED store
                    ELSE IF line.form # "csv"
                    THEN cap' = c /\ UNCHANGED store
                    ELSE IF payload = None
                    THEN cap' = [c EXCEPT !.line_count = @ + 1] /\ UNCHANGED store
                    ELSE LET out == upload_to_heroku(payload[1], cap.watermark, store, resp)
                         IN  IF out.tag = "RAISE"
                             THEN cap' = ForceEnds(c) /\ UNCHANGED store
                             ELSE /\ store' = out.store
                                  /\ cap' = [c EXCEPT
                                        !.watermark = out.watermark,
                                        !.upload_count = @ + 1,
                                        !.line_count = @ + 1,
                                        !.confirmed = IF out.tag = "OK" THEN @ + 1 ELSE @]

\* One turn of the loop of retrieve_data (lines 72-105).  readline waits
\* 2 s for a line; '' counts towards empty_count, and more than
\* empty_limit of them in a row end the loop.  With the port gone
\* readline raises, which the bare except turns into the next turn, or
\* returns ''.
RetrieveTurn ==
    /\ cap.prog = "retrieve"
    /\ cap.pc = "loop"
    /\ UNCHANGED <<store, liveVars, recoverVars, bulkVars, orderVars, decodeVars,
                   norm, histVars>>
    /\ \E line \in DumpLines, raises \in BOOLEAN :
         LET empty == [cap EXCEPT !.empty_count = @ + 1, !.clock = Tick(@),
                                  !.pc = IF cap.empty_count + 1 > empty_limit
                                         THEN "done" ELSE "loop"]
         IN
         CASE cap.src = "stalled" -> cap' = empty
           [] cap.src = "ended" ->
                 cap' = IF raises THEN [cap EXCEPT !.clock = Tick(@)] ELSE empty
           [] cap.src = "sending" ->
                 /\ cap.read < MaxDumpLines
                 /\ cap' = [cap EXCEPT
                               !.read = @ + 1, !.clock = Tick(@), !.empty_count = 0,
                               !.pc = IF line.form = "end" THEN "done" ELSE "loop",
                               !.line_count = IF line.form = "csv" THEN @ + 1 ELSE @]

\* One turn of the loop of standalone_dump.main (lines 229-258): it runs
\* while the time is before the deadline, and after it the script saves
\* the lines and starts the service (line 276).  With the port gone
\* ser.in_waiting raises and the script dies in the loop.
StandaloneTurn ==
    /\ cap.prog = "standalone"
    /\ cap.pc = "loop"
    /\ UNCHANGED <<store, liveVars, recoverVars, bulkVars, orderVars, decodeVars,
                   norm, histVars>>
    /\ IF cap.clock >= dump_timeout
       THEN cap' = [cap EXCEPT !.pc = "done", !.service = "running"]
       ELSE IF cap.src = "ended"
       THEN cap' = [cap EXCEPT !.pc = "done"]
       ELSE IF cap.src = "stalled"
       THEN cap' = [cap EXCEPT !.clock = Tick(@)]
       ELSE /\ cap.read < MaxDumpLines
            /\ \E line \in DumpLines :
                 cap' = [cap EXCEPT
                           !.read = @ + 1, !.clock = Tick(@),
                           !.pc = IF line.form = "end" THEN "done" ELSE "loop",
                           !.service = IF line.form = "end" THEN "running" ELSE @,
                           !.line_count = IF line.form = "csv" THEN @ + 1 ELSE @]

CaptureNext ==
    \/ CaptureStart
    \/ SourceStops
    \/ UserAbort
    \/ ForceTurn
    \/ RetrieveTurn
    \/ StandaloneTurn

(***************************************************************************)
(* Two runs of the live uploader (serial_uploader.main, or the replay of   *)
(* force_sd_dump.main) from the same store and watermark, fed the same     *)
(* lines in two orders; every POST comes back 200.                         *)
(***************************************************************************)
MaxOrderLines == 2

\* The orders of a set of lines.
Orders(S) ==
    {q \in [1..Cardinality(S) -> S] : \A i, j \in 1..Cardinality(S) : q[i] = q[j] => i = j}

InitOrder ==
    /\ InitPipeline
    /\ norm = NoNorm
    /\ dec = NoDecode
    /\ \E S \in {T \in SUBSET LiveLines : Cardinality(T) \in 1..MaxOrderLines} :
        \E qa \in Orders(S), qb \in Orders(S) :
            /\ runA = [NoRun EXCEPT !.queue = qa]
            /\ runB = [NoRun EXCEPT !.queue = qb]

StepA ==
    /\ runA.queue # <<>>
    /\ runA' = RunLine(runA)
    /\ UNCHANGED <<runB, store, liveVars, recoverVars, bulkVars, decodeVars, toolVars, histVars>>

StepB ==
    /\ runB.queue # <<>>
    /\ runB' = RunLine(runB)
    /\ UNCHANGED <<runA, store, liveVars, recoverVars, bulkVars, decodeVars, toolVars, histVars>>

OrderNext == StepA \/ StepB

SpecLive == Init /\ [][LiveNext]_vars

SpecRecover == Init /\ [][RecoverNext]_vars

SpecBulk == Init /\ [][BulkNext]_vars

SpecOrder == InitOrder /\ [][OrderNext]_vars

SpecDecode == InitDecode /\ [][DecodeNext]_vars

SpecOffset == InitOffset /\ [][Normalize]_vars

SpecCapture == Init /\ [][CaptureNext]_vars

\* A loop that can take a turn takes it: the scripts are not suspended.
SpecCaptureFair ==
    /\ SpecCapture
    /\ WF_vars(ForceTurn)
    /\ WF_vars(RetrieveTurn)
    /\ WF_vars(StandaloneTurn)

(***************************************************************************)
(* Claims about the live stream (SpecLive).                                *)
(***************************************************************************)
\* A call of upload_to_heroku is a step that prints one more line.
Called == last'.n = last.n + 1

\* C3: in STREAMING every reading delivered so far whose timestamp is at
\* or before the watermark is persisted.
C3_AtOrBeforeWatermarkPersisted ==
    pc = "STREAMING" =>
        \A r \in delivered :
            PyStrLE(r.ts, watermark) => CopiesOf(store, r) >= 1

\* C4: across the calls of upload_to_heroku in STREAMING the watermark
\* never decreases, whatever the order of the input and the outcome of
\* the uploads.
C4_WatermarkNeverDecreases ==
    [][(pc = "STREAMING" /\ pc' = "STREAMING") => PyStrLE(watermark, watermark')]_vars

\* A lower timestamp came after an advance and the watermark stayed.
C4_Witness ==
    /\ pc = "STREAMING"
    /\ last.tag = "SKIP"
    /\ PyStrLT(last.ts, watermark)
    /\ watermark # EpochZero

\* C5: in STREAMING the watermark changes only in a call whose POST came
\* back 200 or 201, and then to the timestamp of the uploaded document; a
\* skip, another status or an exception leaves it as it was.
C5_WatermarkFrame ==
    [][(pc = "STREAMING" /\ pc' = "STREAMING") =>
          /\ watermark' # watermark =>
                /\ Called
                /\ last'.tag = "OK"
                /\ last'.status \in OkStatuses
                /\ watermark' = last'.ts
          /\ (Called /\ last'.tag \in {"SKIP", "ERROR"}) => watermark' = watermark]_vars

\* An upload failed after the watermark had advanced.
C5_Witness ==
    /\ pc = "STREAMING"
    /\ last.tag = "ERROR"
    /\ last.status = "500"
    /\ watermark # EpochZero
    /\ PyStrLT(watermark, last.ts)

\* C6: upload_to_heroku attempts a write if and only if the normalized
\* timestamp of the reading is strictly greater than the watermark (both
\* being a date and time, which has a normalized value).
C6_AttemptIffNormalizedGreater ==
    [][(pc = "STREAMING" /\ Called /\ watermark.k = "iso" /\ last'.ts.k = "iso") =>
          (last'.tag # "SKIP" <=>
              LocalToInstant(last'.ts) > LocalToInstant(watermark))]_vars

\* C7: readings of different families with one timestamp, arriving as
\* separate lines, are both admitted: none is rejected for the other's
\* commit.  (r2 carries the newest timestamp delivered, so it is not an
\* out-of-order reading.)
C7_SameInstantBothAdmitted ==
    \A r1, r2 \in delivered :
        ( /\ r1.ts = r2.ts
          /\ r1.fam # r2.fam
          /\ r1 \in admitted
          /\ \A r \in delivered : PyStrLE(r.ts, r2.ts) )
        => r2 \in admitted

\* C1: with every store call succeeding, a reading delivered through a
\* source is held by the store exactly once: never zero copies, never two.
C1_ExactlyOnce ==
    ~storeFailed => \A r \in delivered : CopiesOf(store, r) = 1

\* C11: whenever the query of the newest timestamp yields no usable
\* timestamp (exception, status other than 200, no readings, a reading
\* without timestamp, a timestamp that does not parse), STREAMING starts
\* with the watermark 1970-01-01T00:00:00.
C11_FallbackIsEpochZero ==
    [][(pc = "INIT" /\ pc' = "STREAMING" /\ ~Usable(store, fetched'))
          => watermark' = EpochZero]_vars

\* The text names its offset from UTC (a Z or +hh:mm after the seconds).
OffsetQualified(t) == t.k = "isoZ"

\* C23: every timestamp submitted to the upload endpoint or the store
\* carries its offset: the timestamp of a document POSTed by
\* upload_to_heroku is never a naive local text.
C23_SubmittedTimestampsQualified ==
    last.tag \in {"OK", "ERROR"} => OffsetQualified(last.ts)

\* C26: a run of the live uploader goes forward only: a call of
\* upload_to_heroku is made in STREAMING alone, STREAMING is entered from
\* INIT alone and with the watermark the sync has just set, and in
\* STREAMING nothing is fetched from the store again: the watermark moves
\* only to the timestamp of a document just uploaded.
C26_OneDirectional ==
    [][ /\ Called => (pc = "STREAMING" /\ pc' = "STREAMING")
        /\ (pc # "STREAMING" /\ pc' = "STREAMING") =>
               /\ pc = "INIT"
               /\ watermark' = fetch_latest_timestamp(store, fetched')
        /\ pc = "STREAMING" =>
               /\ pc' \in {"STREAMING", "STOPPED"}
               /\ fetched' = fetched
               /\ watermark' # watermark =>
                      (Called /\ last'.tag = "OK" /\ watermark' = last'.ts) ]_vars

\* An upload has failed while the store held a reading newer than the
\* watermark: a new sync would have moved the watermark.
C26_Witness ==
    /\ pc = "STREAMING"
    /\ last.tag = "ERROR"
    /\ LatestInstant(store) # None
    /\ watermark.k = "iso"
    /\ PyStrLT(watermark, InstantToLocal(LatestInstant(store)[1]))

\* C27: in STREAMING a document that is admitted is POSTed once, and a
\* status other than 200 and 201 does what an exception of the POST does:
\* the watermark stays, nothing is tried again, nothing is raised into
\* the loop, and the loop goes on to the next line.
C27_FailureIsNotRetried ==
    [][(pc = "STREAMING" /\ Called) =>
          /\ last'.tag \in {"OK", "ERROR"} => last'.posts = 1
          /\ last'.tag = "ERROR" <=> last'.status \in {"500", "exception"}
          /\ last'.tag = "ERROR" =>
                 /\ watermark' = watermark
                 /\ pc' = "STREAMING"
                 /\ nlines' = nlines + 1
                 /\ last'.n = last.n + 1 ]_vars

\* The endpoint answered 500 after the watermark had advanced, and the
\* watermark is where it was.
C27_Witness ==
    /\ pc = "STREAMING"
    /\ last.tag = "ERROR"
    /\ last.status = "500"
    /\ last.posts = 1
    /\ last.n = 2
    /\ watermark = TWinter
    /\ last.ts = TAfter

\* The text has the form YYYY-MM-DDTHH:MM:SS of a local date and time.
WellFormedLocal(t) == t.k = "iso" /\ ValidCivil(t)

\* C30: in STREAMING no call of upload_to_heroku takes the watermark from
\* a well-formed local timestamp to a text of another form, whatever the
\* timestamp of the payload it admits.
C30_WatermarkStaysWellFormed ==
    [][(pc = "STREAMING" /\ Called /\ WellFormedLocal(watermark))
          => WellFormedLocal(watermark')]_vars

(***************************************************************************)
(* Claims about the recovered-log upload (SpecRecover).                    *)
(***************************************************************************)
\* C9: every write attempt is preceded by a decision of a dedup filter
\* that admitted the reading.
C9_AttemptsWereAdmitted == attempts \subseteq admitted

\* The first line of the file, among its first k, that contributes a
\* reading to the batch of ts.
FirstContributor(file, k, ts) ==
    CHOOSE i \in 1..k :
        /\ parse_line(file[i]) # None
        /\ parse_line(file[i])[1][1] = ts
        /\ \A j \in 1..(i - 1) :
               parse_line(file[j]) = None \/ parse_line(file[j])[1][1] # ts

\* C22: while the batches are assembled, after every line read each
\* batch has the timestamp and the device_id of the first reading that
\* went into it, readings of several devices sharing a timestamp included.
C22_BatchKeyFromFirstReading ==
    rpc # "idle" =>
        \A k \in 1..Len(rfile) :
            LET acc == AssembleBatches(SubSeq(rfile, 1, k), <<>>) IN
            \A ts \in DOMAIN acc :
                LET first == parse_line(rfile[FirstContributor(rfile, k, ts)])[1]
                IN  /\ acc[ts].timestamp = first[1]
                    /\ acc[ts].device_id = first[2].device_id

\* The batch holds the reading.
Holds(batch, data) ==
    CASE data.type = "temp"  ->
             \E j \in 1..Len(batch.readings) : batch.readings[j] = data.data
      [] data.type = "env"   -> batch.environment_sensor = Some(data.data)
      [] data.type = "level" -> batch.level_sensor = Some(data.data)

\* C33: every reading decoded from the log file is in the batch of its
\* timestamp, two environment readings or two level readings of one
\* timestamp included.
C33_AssemblyLosesNoReading ==
    rpc # "idle" =>
        \A i \in 1..Len(rfile) :
            LET result == parse_line(rfile[i]) IN
            result # None =>
                /\ result[1][1] \in DOMAIN batches
                /\ Holds(batches[result[1][1]], result[1][2])

\* The timestamps still to upload are strictly ascending.
Ascending(q) == \A i, j \in 1..Len(q) : i < j => PyStrLT(q[i], q[j])

\* C34: the upload loop starts with every batch of the file queued once in
\* ascending timestamp order; each turn attempts the earliest batch left
\* and, whatever the outcome of the upload, goes on with the rest; the loop
\* ends only when no batch is left.
C34_EachBatchOnceInOrder ==
    [][ /\ (rpc # "uploading" /\ rpc' = "uploading") =>
              /\ {rqueue'[i] : i \in 1..Len(rqueue')} = DOMAIN batches'
              /\ Ascending(rqueue')
        /\ (rpc = "uploading" /\ rqueue # <<>>) =>
              /\ rqueue' = Tail(rqueue)
              /\ rpc' = "uploading"
              /\ batches' = batches
              /\ ReadingsOf(batches[Head(rqueue)]) \subseteq attempts'
        /\ (rpc = "uploading" /\ rqueue = <<>>) => rpc' = "done" ]_vars

\* The upload of the first batch failed and the second batch was uploaded.
C34_Witness ==
    /\ rruns = 1
    /\ rpc = "uploading"
    /\ rqueue = <<>>
    /\ DOMAIN batches = {TWinter, TAfter}
    /\ Copies(store["temp"], Row(ServerInstant(TWinter), "TD01")) = 0
    /\ Copies(store["temp"], Row(ServerInstant(TAfter), "TD01")) = 1

(***************************************************************************)
(* Claims about the bulk import (SpecBulk).                                *)
(***************************************************************************)
\* C2: a second run of the bulk import on the file of the run before, no
\* store call failing, inserts nothing in any table.
C2_SecondRunInsertsNothing ==
    ( /\ bpc = "done"
      /\ bruns >= 2
      /\ bprev.end = "done"
      /\ bprev.file = bfile
      /\ ~storeFailed )
    => \A f \in Families : inserted[f] = 0

PhaseRank(p) ==
    CASE p = "temp" -> 1 [] p = "level" -> 2 [] p = "env" -> 3
      [] p \in {"summary", "done"} -> 4 [] OTHER -> 0

\* The keys of a table as the existence query prints them.
KeyTexts(tbl) == {<<InstantToUtcText(r.inst), r.sensor>> : r \in DOMAIN tbl}

\* C8: whether a row of a family is admitted depends on that family's own
\* table alone: a dated row is among the rows to insert exactly when its
\* key is not in its own table, and a row the run dies converting is one
\* whose key is not in its own table; the other tables do not enter.
C8_OwnTableDecides ==
    \A f \in Families :
        LET rows == parse_csv(bfile)[f] IN
        /\ PhaseRank(bpc) > PhaseRank(f) =>
              \A i \in 1..Len(rows) :
                  ~IsUptime(rows[i][1]) =>
                      ( (\E j \in 1..Len(to_insert[f]) :
                            to_insert[f][j] = Row(DbInstant(rows[i][1]), rows[i][3]))
                        <=> <<rows[i][1], rows[i][3]>> \notin KeyTexts(snap[f]) )
        /\ \A i \in 1..Len(rows) :
              crash = Some([fam |-> f, row |-> i]) =>
                  <<rows[i][1], rows[i][3]>> \notin KeyTexts(snap[f])

\* A temperature row was skipped for a key of the temperature table while
\* the level table held rows, and a level row of the same file went in.
C8_Witness ==
    /\ bpc = "done"
    /\ skipped["temp"] = 1
    /\ to_insert["temp"] = <<>>
    /\ to_insert["level"] # <<>>
    /\ DOMAIN snap["level"] # {}
    /\ \E i \in 1..Len(parse_csv(bfile)["temp"]) :
          <<parse_csv(bfile)["temp"][i][1], parse_csv(bfile)["temp"][i][3]>>
              \in KeyTexts(snap["temp"])

\* The rows of the pages sent before the page that failed.
RowsSent == SubSeq(to_insert[txn.fam], 1, txn.sent * page_size)

\* C12: when page k of a family's insert fails, the rows of its pages
\* 1..k-1 are in the store after the run has ended.
C12_EarlierPagesStayCommitted ==
    (bpc = "crashed" /\ txn.failed >= 2) =>
        \A i \in 1..Len(RowsSent) : Copies(store[txn.fam], RowsSent[i]) >= 1

\* C13: the failure of a page does not end the run: the run goes on to
\* the remaining pages and families and to its summary.
C13_PageFailureDoesNotAbort ==
    txn.failed # 0 => bpc \in {"temp", "level", "env", "summary", "done"}

\* C14: the import of a file without rows ends with nothing inserted,
\* nothing skipped and no store call made.
C14_EmptyFileNoStoreCalls ==
    (bpc # "idle" /\ bfile.rows = <<>>) =>
        /\ bpc = "done"
        /\ inserted = ZeroCounts
        /\ skipped = ZeroCounts
        /\ bcalls = {}

\* The second run, on the empty file, is over; the first one filled the
\* store.
C14_Witness ==
    /\ bpc = "done"
    /\ bfile.rows = <<>>
    /\ bruns = 2
    /\ DOMAIN store["temp"] # {}

\* C15: the rows categorised from a file without the header line are
\* those of the same file with the header line put before them.
C15_HeaderlessSameRows ==
    bpc # "idle" => parse_csv(bfile) = parse_csv([bfile EXCEPT !.header = TRUE])

\* An environment row with a number that is malformed or "null".
EnvNumberBad(row) ==
    Len(row) >= 12 /\ \E i \in {7, 10, 11, 12} : ~IsFloat(row[i])

\* C19: an environment row with a malformed or "null" number is rejected
\* as a whole and never persisted: the bulk import neither puts it among
\* the rows to insert nor stores it.
C19_BadEnvRowNeverPersisted ==
    \A i \in 1..Len(parse_csv(bfile)["env"]) :
        LET row == parse_csv(bfile)["env"][i] IN
        (EnvNumberBad(row) /\ Normalizable(row[1])) =>
            /\ \A j \in 1..Len(to_insert["env"]) :
                   to_insert["env"][j] # Row(DbInstant(row[1]), row[3])
            /\ Copies(store["env"], Row(DbInstant(row[1]), row[3])) = 0

\* C21: a malformed row of the file (a value or a pin that is no number, a
\* timestamp that is no calendar time) is dropped alone: the run ends
\* normally and every well-formed dated row of the file is in the store.
C21_MalformedRowDroppedAlone ==
    (bpc \in {"done", "crashed"} /\ ~storeFailed) =>
        /\ bpc = "done"
        /\ \A f \in Families :
              \A i \in 1..Len(parse_csv(bfile)[f]) :
                  LET row == parse_csv(bfile)[f][i] IN
                  (~IsUptime(row[1]) /\ Converts(f, row)) =>
                      Copies(store[f], Row(DbInstant(row[1]), row[3])) >= 1

\* C32: the rows a run inserts into one table have distinct keys
\* (timestamp, sensor_name), also when the file holds a row twice.
C32_NoDuplicateKeyInOneRun ==
    \A f \in Families :
        \A i, j \in 1..Len(to_insert[f]) :
            to_insert[f][i] = to_insert[f][j] => i = j

(***************************************************************************)
(* Claims about the decoders (SpecDecode).                                 *)
(***************************************************************************)
\* The payload carries a reading.
Carries(p) ==
    p.readings # <<>> \/ p.environment_sensor # None \/ p.level_sensor # None

\* C16: the decoders do not raise and return a reading or None; in the
\* loop of main a line that is rejected leaves the watermark and the store
\* as they were and the loop goes on to the next line.
C16_RejectedLineIsIsolated ==
    [][ /\ ~IsRaised(dec'.csv) /\ ~IsRaised(dec'.log)
        /\ ("csv" \in dec'.done /\ dec'.csv # None) => Carries(dec'.csv[1])
        /\ ( /\ dec'.run # dec.run
             /\ \/ LinePayload(Head(dec.run.queue)) = None
                \/ ~Carries(LinePayload(Head(dec.run.queue))[1]) )
           => /\ dec'.run.watermark = dec.run.watermark
              /\ dec'.run.store = dec.run.store
              /\ dec'.run.queue = Tail(dec.run.queue) ]_vars

\* C17: a record of only 4 fields is rejected by both decoders, and a
\* result a decoder returns carries a reading.
C17_NoResultWithoutReading ==
    /\ "csv" \in dec.done =>
          /\ Len(dec.parts) = 4 => dec.csv = None
          /\ dec.csv # None => Carries(dec.csv[1])
    /\ "log" \in dec.done =>
          /\ Len(dec.parts) = 4 => dec.log = None
          /\ dec.log # None => dec.log[1][2].type \in {"temp", "env", "level"}

\* The variant the dispatch rules give a record, in their order.
Dispatch(parts) ==
    IF Len(parts) >= 4 /\ parts[4] \in {"A", "B"} THEN "temp"
    ELSE IF Len(parts) >= 12 /\ parts[3] = "ATM01" THEN "env"
    ELSE IF Len(parts) >= 4 /\ parts[4] = "L" THEN "level"
    ELSE "none"

VariantsOf(p) ==
    {v \in {"temp", "env", "level"} :
        \/ v = "temp" /\ p.readings # <<>>
        \/ v = "env" /\ p.environment_sensor # None
        \/ v = "level" /\ p.level_sensor # None}

\* C18: the result of a decoder for a record with a valid timestamp
\* carries exactly one variant, the one the dispatch rules give: tag A or
\* B a temperature reading, else ATM01 with 12 fields an environment
\* reading, else tag L a level reading.
C18_DispatchInPriorityOrder ==
    /\ ("csv" \in dec.done /\ dec.csv # None) =>
           VariantsOf(dec.csv[1]) = {Dispatch(dec.parts)}
    /\ ("log" \in dec.done /\ dec.log # None) =>
           dec.log[1][2].type = Dispatch(dec.parts)

\* A number of a temperature record: the token "null" or a float.
NullOrFloat(tok) == tok = "null" \/ IsFloat(tok)

\* C20: a temperature record with "null" as its raw or calibrated value is
\* accepted by the live decoder, the recovered-log decoder and the bulk
\* import, and the value is absent, not 0.0.
C20_NullIsAbsent ==
    LET p == dec.parts
        wellFormed == /\ Len(p) >= 9
                      /\ IsInt(p[5])
                      /\ NullOrFloat(p[7]) /\ NullOrFloat(p[8])
    IN
    /\ ( /\ "csv" \in dec.done /\ wellFormed
         /\ MatchesTimestamp(p[1]) /\ p[4] \in {"A", "B"} ) =>
          /\ dec.csv # None
          /\ p[7] = "null" => dec.csv[1].readings[1].raw_temp_c = None
          /\ p[8] = "null" => dec.csv[1].readings[1].temp_c = None
    /\ ( /\ "log" \in dec.done /\ wellFormed
         /\ MatchesTimestamp(p[1]) /\ p[4] \in {"A", "B"} ) =>
          /\ dec.log # None
          /\ p[7] = "null" => dec.log[1][2].data.raw_temp_c = None
          /\ p[8] = "null" => dec.log[1][2].data.temp_c = None
    /\ ( /\ "row" \in dec.done /\ wellFormed
         /\ Normalizable(p[1]) /\ SensorFamily(p[3]) = "temp" ) =>
          /\ dec.row # None /\ ~IsRaised(dec.row)
          /\ p[7] = "null" => dec.row[1].raw_temp_c = None
          /\ p[8] = "null" => dec.row[1].temp_c = None

\* A full temperature record with "null" as its raw value and a number as
\* its calibrated value has gone through the three decoders.
C20_Witness ==
    /\ dec.done = {"csv", "log", "row"}
    /\ Len(dec.parts) = 12
    /\ dec.parts[3] = "TD01" /\ dec.parts[4] = "A" /\ dec.parts[5] = "2"
    /\ dec.parts[7] = "null" /\ dec.parts[8] = "21.3"
    /\ dec.parts[1] = TWinter
    /\ dec.csv # None /\ dec.log # None /\ dec.row # None
    /\ dec.csv[1].readings[1].temp_c = Some(213)

\* C31: a decoded line that carries no reading does not move the
\* watermark: the temperature reading with the same timestamp that comes
\* after it is uploaded.
C31_EmptyPayloadKeepsWatermark ==
    LET first == parse_csv_line(dec.parts) IN
    ( /\ dec.run.queue = <<>>
      /\ first # None
      /\ ~Carries(first[1])
      /\ first[1].timestamp = dec.follow[1] )
    => Copies(dec.run.store["temp"],
              Row(ServerInstant(dec.follow[1]), dec.follow[3])) >= 1

\* The family of the reading a payload of parse_csv_line carries.
FamilyOfPayload(p) ==
    CASE p.readings # <<>>            -> "temp"
      [] p.environment_sensor # None -> "env"
      [] p.level_sensor # None       -> "level"
      [] OTHER                       -> "none"

\* C35: parse_csv_line, parse_line and parse_csv agree on a record: all
\* accept it or all reject it, all put it in the same sensor family, and
\* the two that build a reading build the same one.
C35_DecodersAgree ==
    dec.done = {"csv", "log", "row"} =>
        LET okCsv == dec.csv # None
            okLog == dec.log # None
            okRow == dec.cat # None /\ dec.cat # Raised
        IN  /\ okCsv = okLog
            /\ okLog = okRow
            /\ okCsv =>
                  /\ FamilyOfPayload(dec.csv[1]) = dec.log[1][2].type
                  /\ dec.log[1][2].type = dec.cat[1]
                  /\ Holds(dec.csv[1], dec.log[1][2])

\* C36: a run of force_sd_dump or standalone_dump, which stopped the live
\* logger service when it started, has started the service again when it
\* has ended, by whatever path.
C36_ServiceRestartedOnEveryExit ==
    (StopsService(cap.prog) /\ cap.pc = "done") => cap.service = "running"

(***************************************************************************)
(* Claims about the offset (SpecOffset).                                   *)
(***************************************************************************)
\* The wall time occurs under standard time, under daylight time: read
\* with that offset it is an instant at which that offset is in force.
InStandard(t) == ~InstantIsDst(WallSeconds(t) - StdOffsetHours * 3600)
InDaylight(t) == InstantIsDst(WallSeconds(t) - DstOffsetHours * 3600)

\* The offset between the wall time and the instant it is normalized to.
Shift(t) == WallSeconds(t) - DbInstant(t)

\* C24: get_central_offset gives -06:00 for a wall time of standard time
\* and -05:00 for one of daylight time, the days of the transitions
\* included, so that one time of day in the two regimes is normalized to
\* instants one hour apart.
C24_OffsetFollowsRegime ==
    Len(norm.offset) = 1 =>
        /\ (InStandard(norm.ts) /\ ~InDaylight(norm.ts)) =>
               norm.offset = Some(StdOffsetHours)
        /\ (InDaylight(norm.ts) /\ ~InStandard(norm.ts)) =>
               /\ norm.offset = Some(DstOffsetHours)
               /\ \A u \in OffsetInputs :
                      ( /\ Normalizable(u)
                        /\ InStandard(u) /\ ~InDaylight(u)
                        /\ <<u.h, u.mi, u.s>> = <<norm.ts.h, norm.ts.mi, norm.ts.s>> )
                      => Shift(norm.ts) - Shift(u) = 3600

\* The first second of daylight time on the day of the transition.
C24_Witness ==
    /\ norm.ts = Iso(2026, 3, 8, 3, 0, 0)
    /\ norm.offset = Some(DstOffsetHours)

\* C25: for a wall time of the repeated hour or of the skipped hour
\* get_central_offset gives the standard offset, -06:00.
C25_FoldAndGapGiveStandard ==
    ( /\ Len(norm.offset) = 1
      /\ InStandard(norm.ts) = InDaylight(norm.ts) )
    => norm.offset = Some(StdOffsetHours)

(***************************************************************************)
(* Claims about the capture of a dump (SpecCapture, SpecCaptureFair).      *)
(***************************************************************************)
\* C28: the count of uploaded batches a run reports at its end is the
\* number of batches the store confirmed in the run: "Uploaded N batches"
\* of force_sd_dump counts the POSTs answered 200 or 201.
C28_ReportedCountIsConfirmed ==
    (cap.prog = "force" /\ cap.pc = "done") => cap.upload_count = cap.confirmed

\* C29: each capture loop ends once the line source has stalled for good
\* or has ended without the end marker.
C29_CaptureTerminates ==
    \A prog \in CapturePrograms :
        (cap.prog = prog /\ cap.pc = "loop" /\ cap.src # "sending")
            ~> (cap.pc = "done")

(***************************************************************************)
(* Claims about the order of delivery (SpecOrder).                         *)
(***************************************************************************)
PersistedSet(st) == [f \in Families |-> DOMAIN st[f]]

\* C10: two orders of delivering the same lines, from the same store and
\* watermark and with every store call succeeding, end with the same set
\* of persisted readings.
C10_OrderIndependent ==
    (runA.queue = <<>> /\ runB.queue = <<>>) =>
        PersistedSet(runA.store) = PersistedSet(runB.store)

=============================================================================
